---- MODULE Spec2Model ----
(***************************************************************************)
(* Model of real_time_monitor.py: the MQTT message handler RunMqtt.recmsg  *)
(* (report fusion into allData, CSV persistence, the plot_list window, the *)
(* position classifier decide_pos and the publication of the shared        *)
(* series) and the reader PlotSensorData.update of the plotting process.   *)
(*                                                                         *)
(* Numbers are fixed-point, in thousandths: 1500 stands for 1.5.           *)
(* A timestamp string is the sequence of its whitespace-separated tokens,  *)
(* the packed piezoString is the sequence of its comma-separated tokens.   *)
(***************************************************************************)
EXTENDS Integers, Sequences, FiniteSets, TLC

(***************************************************************************)
(* Bounds of the model.                                                    *)
(***************************************************************************)
\* reports delivered to recmsg in one run
MaxReports == 8
\* malformed or incomplete reports among them
MaxBad == 1
\* reports delivered in one run of the interleaved specification
MaxConcReports == 2
\* passes of PlotSensorData.update in one run of the interleaved specification
MaxReads == 1
\* length of the report sequences replayed after a failed report
Lookahead == 2
\* decide_pos called on its own: the readings of the iterated series that are
\* below 250, at most
MaxLow == 3
\* decide_pos called on its own: the readings of the lookup series that are
\* below 180, at most
MaxNear == 1

(***************************************************************************)
(* Module-level constants of the program.                                  *)
(***************************************************************************)
y_keys == <<"x7", "x6", "x5", "x4", "x3", "x2", "x1", "x0">>
x_keys == <<"y1", "y2", "y3", "y4", "y5", "y6", "y7", "y8", "y9">>

csv_columns ==
    <<"timestamp", "x0", "x1", "x2", "x3", "x4", "x5", "x6", "x7", "x8",
      "y0", "y1", "y2", "y3", "y4", "y5", "y6", "y7", "y8", "y9",
      "microwave0", "microwave1", "PIR0", "PIR1", "PIR2", "PIR3",
      "pz0", "pz1", "pz2", "pz3">>

do_not_convert == {"timestamp", "origin", "piezoString"}

\* len(allData) > 14, len(plot_list[0]) < 15
CompleteLen == 14
\* len(plot_list) < 5, len(self.timestamp_list) < 5, len(df.index) == 5
WindowLen == 5
\* a[i] < 250 (in thousandths)
NoDetection == 250000
\* int(a[i] / 28) (in thousandths)
BucketWidth == 28000
\* b[..] < 180 (in thousandths)
StandingBelow == 180000

(***************************************************************************)
(* Values.                                                                 *)
(***************************************************************************)
\* a JSON value that float() rejects with ValueError
NotNumeric == -999999999
\* the value pandas gives a cell whose key the sample does not have
NaN == 999999999

Range(s) == {s[i] : i \in DOMAIN s}

EmptyDict == [k \in {} |-> 0]

\* dict.update(other)
Update(d, other) ==
    [k \in DOMAIN d \cup DOMAIN other |-> IF k \in DOMAIN other THEN other[k] ELSE d[k]]

\* d[key] = v
SetKey(d, key, v) == [k \in DOMAIN d \cup {key} |-> IF k = key THEN v ELSE d[k]]

\* d.pop(key, None)
PopKey(d, key) == [k \in DOMAIN d \ {key} |-> d[k]]

\* round(x, 2) of a float: to the nearest hundredth, a tie to the even one
Round2(v) ==
    LET q == v \div 10
        r == v % 10
    IN  IF r < 5 THEN q * 10
        ELSE IF r > 5 THEN (q + 1) * 10
        ELSE IF q % 2 = 0 THEN q * 10 ELSE (q + 1) * 10

\* the keys the generator at lines 420 and 431 converts
NumericKeys(rmsg) == DOMAIN rmsg \ do_not_convert

\* a conversion that does not round
Converted_NoRound(rmsg) == [k \in NumericKeys(rmsg) |-> rmsg[k]]

\* dict((k, round(float(v), 2)) for k, v in rmsg.items() if k not in do_not_convert)
Converted(rmsg) == [k \in NumericKeys(rmsg) |-> Round2(rmsg[k])]

\* float(v) raises ValueError for some converted value
ConvertFails(rmsg) == \E k \in NumericKeys(rmsg) : rmsg[k] = NotNumeric

(***************************************************************************)
(* The reports delivered to recmsg: the decoded JSON objects (rmsg).       *)
(***************************************************************************)
tsA == <<"2018-04-01", "10:00:01">>
tsB == <<"2018-04-01", "10:00:02">>
tsY == <<"2018-04-01", "10:00:09">>
tsOneToken == <<"10:00:03">>

\* readings of the sensors y1..y9 carried by a RigX report
XValsA == [k \in Range(x_keys) |-> 260004]
XValsB == [k \in Range(x_keys) |-> IF k \in {"y2", "y3"} THEN 150006 ELSE 200125]
\* readings of the sensors x0..x7 carried by a RigY report
YVals ==
    [k \in Range(y_keys) |->
        CASE k = "x7" -> 90000
          [] k = "x6" -> 100006
          [] k = "x5" -> 120000
          [] k = "x3" -> 30000
          [] OTHER -> 260000]

XHead(ts, pz) == ("origin" :> "XPi") @@ ("timestamp" :> ts) @@ ("piezoString" :> pz)
YHead == ("origin" :> "YPi") @@ ("timestamp" :> tsY) @@ ("timestampy" :> tsY)

Reports ==
    << \* 1-3: well-formed reports
       XHead(tsA, <<1500, 2250, 3000, 4000>>) @@ XValsA,
       XHead(tsB, <<1504, 2256, 3000, 4000>>) @@ XValsB,
       YHead @@ YVals,
       \* 4: no origin tag
       ("timestamp" :> tsA) @@ XValsA,
       \* 5: RigX without the packed auxiliary string
       ("origin" :> "XPi") @@ ("timestamp" :> tsA) @@ XValsA,
       \* 6: RigX with 3 tokens in the packed string
       XHead(tsA, <<1500, 2250, 3000>>) @@ XValsA,
       \* 7: RigX with a non-numeric token
       XHead(tsA, <<1500, NotNumeric, 3000, 4000>>) @@ XValsA,
       \* 8: RigX with a non-numeric reading
       XHead(tsA, <<1500, 2250, 3000, 4000>>) @@ ("y4" :> NotNumeric) @@ XValsA,
       \* 9: RigX without a timestamp
       ("origin" :> "XPi") @@ ("piezoString" :> <<1500, 2250, 3000, 4000>>) @@ XValsB,
       \* 10: RigY with a non-numeric reading
       YHead @@ ("x4" :> NotNumeric) @@ YVals,
       \* 11: RigY with a field that is no CSV column
       YHead @@ ("temp" :> 21500) @@ YVals,
       \* 12: RigX whose timestamp has no date part
       XHead(tsOneToken, <<1500, 2250, 3000, 4000>>) @@ XValsA,
       \* 13: a report of another origin
       ("origin" :> "ZPi") @@ ("timestamp" :> tsA) @@ XValsA,
       \* 14: RigX with one reading only
       XHead(tsB, <<1500, 2250, 3000, 4000>>) @@ ("y1" :> 200125) >>

\* the complete reports, and the malformed or incomplete ones
GoodReports == {1, 2, 3}
BadReports == (1 .. Len(Reports)) \ GoodReports

(***************************************************************************)
(* RunMqtt.decide_pos.  Positions are 0-based as in the source; the y      *)
(* coordinate (250 / 9) * (i + 1) is kept in ninths, as 250 * (i + 1).     *)
(***************************************************************************)
\* v < c for a float v that may be NaN
Lt(v, c) == v # NaN /\ v < c

\* a division that rounds toward minus infinity
TruncDiv_Floor(x, w) == x \div w

\* int(x / w): truncation toward zero
TruncDiv(x, w) == IF x >= 0 THEN x \div w ELSE -((-x) \div w)

\* the range of a list whose negative indexes do not count from the end
PyInRange_NoWrap(seq, j) == j < Len(seq) /\ j >= 0

\* seq[j] of a Python list: a negative j counts from the end
PyInRange(seq, j) == j < Len(seq) /\ j >= -Len(seq)
PyAt(seq, j) == IF j >= 0 THEN seq[j + 1] ELSE seq[Len(seq) + j + 1]

NoPositions ==
    [green_x |-> <<>>, green_y |-> <<>>, red_x |-> <<>>, red_y |-> <<>>,
     ignore |-> 0, exc |-> ""]

AddRed(acc, i, x) ==
    [acc EXCEPT !.red_x = Append(@, x), !.red_y = Append(@, 250 * (i + 1)),
                !.ignore = i + 1]
AddGreen(acc, i, x) ==
    [acc EXCEPT !.green_x = Append(@, x), !.green_y = Append(@, 250 * (i + 1)),
                !.ignore = i + 1]

\* the body of the loop for one i, without the test of line 359
decide_step_NoSkip(a, b, i, acc) ==
    IF ~Lt(a[i + 1], NoDetection) THEN acc
    ELSE LET x == a[i + 1]
             x_point == TruncDiv(x, BucketWidth)
             before == x_point - 1
         IN  IF ~PyInRange(b, x_point - 1) THEN [acc EXCEPT !.exc = "IndexError"]
             ELSE IF Lt(PyAt(b, x_point - 1), StandingBelow) THEN AddRed(acc, i, x)
             ELSE IF ~PyInRange(b, before - 1) THEN [acc EXCEPT !.exc = "IndexError"]
             ELSE IF Lt(PyAt(b, before - 1), StandingBelow) THEN AddRed(acc, i, x)
             ELSE AddGreen(acc, i, x)

\* the body of the loop for one i
decide_step(a, b, i, acc) ==
    IF acc.ignore = i THEN acc
    ELSE IF ~Lt(a[i + 1], NoDetection) THEN acc
    ELSE LET x == a[i + 1]
             x_point == TruncDiv(x, BucketWidth)
             before == x_point - 1
         IN  IF ~PyInRange(b, x_point - 1) THEN [acc EXCEPT !.exc = "IndexError"]
             ELSE IF Lt(PyAt(b, x_point - 1), StandingBelow) THEN AddRed(acc, i, x)
             ELSE IF ~PyInRange(b, before - 1) THEN [acc EXCEPT !.exc = "IndexError"]
             ELSE IF Lt(PyAt(b, before - 1), StandingBelow) THEN AddRed(acc, i, x)
             ELSE AddGreen(acc, i, x)

RECURSIVE decide_loop(_, _, _, _)
decide_loop(a, b, i, acc) ==
    IF i >= Len(a) \/ acc.exc # "" THEN acc
    ELSE decide_loop(a, b, i + 1, decide_step(a, b, i, acc))

decide_pos(a, b) == decide_loop(a, b, 0, NoPositions)

(***************************************************************************)
(* RunMqtt.write_to_csv.  The file is the sequence of the lines written:   *)
(* the header line, or a row holding the dict handed to writerow.          *)
(***************************************************************************)
HeaderLine == [kind |-> "header", data |-> EmptyDict]
RowLine(dict_data) == [kind |-> "row", data |-> dict_data]

\* st is the state of the program, dict_data the dict to write; the result is
\* the state after the call and the exception that ended it ("" for none).
\* DictWriter.writerow raises ValueError for a key that is no field name.
write_to_csv(st, dict_data) ==
    LET f == IF st.write_header THEN Append(st.csv_file, HeaderLine) ELSE st.csv_file
    IN  IF ~(DOMAIN dict_data \subseteq Range(csv_columns))
        THEN [st |-> [st EXCEPT !.csv_file = f], exc |-> "ValueError"]
        ELSE [st |-> [st EXCEPT !.csv_file = Append(f, RowLine(dict_data)),
                                !.write_header = FALSE],
              exc |-> ""]

(***************************************************************************)
(* RunMqtt.recmsg, the branch of a RigX report (lines 408-425).            *)
(***************************************************************************)
pz_names == <<"pz0", "pz1", "pz2", "pz3">>

\* the tokens of pz_list that lines 415-418 convert before one is missing or
\* float() rejects it
RECURSIVE PzConverted(_, _)
PzConverted(pz_list, n) ==
    IF n < Len(pz_names) /\ n < Len(pz_list) /\ pz_list[n + 1] # NotNumeric
    THEN PzConverted(pz_list, n + 1)
    ELSE n

\* the result of a handler: the state it leaves, the operations on the shared
\* objects it still has to perform, the exception that ended it, whether it
\* called write_to_csv and whether it appended to plot_list
Outcome(st, ops, exc, called, appended) ==
    [st |-> st, ops |-> ops, exc |-> exc, called |-> called, appended |-> appended]

XPiBranch(st, rmsg) ==
    LET cleared == IF st.ypiReceived = 0 THEN EmptyDict ELSE st.allData
        st1 == [st EXCEPT !.xpiReceived = 1, !.allData = cleared]
    IN  IF "piezoString" \notin DOMAIN rmsg
        THEN Outcome(st1, <<>>, "KeyError", FALSE, FALSE)
        ELSE
        LET pz_list == rmsg["piezoString"]
            n == PzConverted(pz_list, 0)
            withPz == Update(cleared, [k \in {pz_names[i] : i \in 1 .. n} |->
                                          pz_list[CHOOSE i \in 1 .. n : pz_names[i] = k]])
            st2 == [st1 EXCEPT !.allData = withPz]
        IN  IF n < Len(pz_names)
            THEN Outcome(st2, <<>>,
                         IF n >= Len(pz_list) THEN "IndexError" ELSE "ValueError",
                         FALSE, FALSE)
            ELSE IF ConvertFails(rmsg)
            THEN Outcome(st2, <<>>, "ValueError", FALSE, FALSE)
            ELSE
            LET merged == Update(withPz, Converted(rmsg))
            IN  IF "timestamp" \notin DOMAIN rmsg
                THEN Outcome([st1 EXCEPT !.allData = merged], <<>>, "KeyError",
                             FALSE, FALSE)
                ELSE Outcome([st1 EXCEPT
                                 !.allData = PopKey(SetKey(merged, "timestamp",
                                                           rmsg["timestamp"]),
                                                    "piezoString"),
                                 !.xpiReceived = 0],
                             <<>>, "", FALSE, FALSE)

(***************************************************************************)
(* The operations recmsg performs on the objects it shares with the        *)
(* plotting processes (the multiprocessing.Manager proxies): each is one   *)
(* request to the manager.                                                 *)
(***************************************************************************)
Op(obj, kind, idx, key, val) ==
    [obj |-> obj, kind |-> kind, idx |-> idx, key |-> key, val |-> val]

ListApply(lst, op) ==
    CASE op.kind = "append" -> Append(lst, op.val)
      [] op.kind = "set" -> [lst EXCEPT ![op.idx + 1] = op.val]
      [] op.kind = "pop0" -> Tail(lst)

ApplyOp(st, op) ==
    CASE op.obj = "list_x" -> [st EXCEPT !.list_x = ListApply(@, op)]
      [] op.obj = "list_y" -> [st EXCEPT !.list_y = ListApply(@, op)]
      [] op.obj = "timestamp_list" -> [st EXCEPT !.timestamp_list = ListApply(@, op)]
      [] op.obj = "x_sensor_data_dict" ->
            [st EXCEPT !.x_sensor_data_dict = SetKey(@, op.key, op.val)]
      [] op.obj = "y_sensor_data_dict" ->
            [st EXCEPT !.y_sensor_data_dict = SetKey(@, op.key, op.val)]

RECURSIVE ApplyOps(_, _)
ApplyOps(st, ops) ==
    IF ops = <<>> THEN st ELSE ApplyOps(ApplyOp(st, Head(ops)), Tail(ops))

(***************************************************************************)
(* RunMqtt.recmsg, lines 446-480: the DataFrame of plot_list, the          *)
(* classification of its last row and the publication.                     *)
(***************************************************************************)
\* the columns of pd.DataFrame(plot_list): every key of every sample
Columns(pl) == UNION {DOMAIN pl[i] : i \in 1 .. Len(pl)}

\* a cell of the DataFrame: NaN where the sample has no such key
Cell(sample, k) == IF k \in DOMAIN sample THEN sample[k] ELSE NaN

\* df.iloc[-5:][k].tolist()
Column(pl, k) == [i \in 1 .. Len(pl) |-> Cell(pl[i], k)]

\* df.empty
DfEmpty(pl) == Len(pl) = 0 \/ Columns(pl) = {}

\* lines 458-468
PositionOps(st, pos) ==
    IF Len(st.list_x) < 1
    THEN << Op("list_x", "append", 0, "", pos.green_x),
            Op("list_x", "append", 0, "", pos.red_x),
            Op("list_y", "append", 0, "", pos.green_y),
            Op("list_y", "append", 0, "", pos.red_y) >>
    ELSE << Op("list_x", "set", 0, "", pos.green_x),
            Op("list_x", "set", 1, "", pos.red_x),
            Op("list_y", "set", 0, "", pos.green_y),
            Op("list_y", "set", 1, "", pos.red_y) >>

\* ts.split()[1] can be evaluated: ts is a string with 2 tokens or more
SplitOk(latest) == "timestamp" \in DOMAIN latest /\ Len(latest["timestamp"]) >= 2

\* lines 470-474; the pop of line 473 precedes the evaluation of line 474
TimestampOps(st, latest) ==
    (IF Len(st.timestamp_list) < WindowLen THEN <<>>
     ELSE << Op("timestamp_list", "pop0", 0, "", "") >>)
    \o (IF SplitOk(latest)
        THEN << Op("timestamp_list", "append", 0, "", latest["timestamp"][2]) >>
        ELSE <<>>)

\* lines 476-480 without the test of line 476
SeriesOps_Always(pl) ==
    [k \in 1 .. Len(x_keys) |->
        Op("x_sensor_data_dict", "setkey", 0, x_keys[k], Column(pl, x_keys[k]))]
    \o [m \in 1 .. Len(y_keys) |->
        Op("y_sensor_data_dict", "setkey", 0, y_keys[m], Column(pl, y_keys[m]))]

\* lines 476-480
SeriesOps(pl) ==
    IF Len(pl) = WindowLen
    THEN [k \in 1 .. Len(x_keys) |->
             Op("x_sensor_data_dict", "setkey", 0, x_keys[k], Column(pl, x_keys[k]))]
         \o [m \in 1 .. Len(y_keys) |->
             Op("y_sensor_data_dict", "setkey", 0, y_keys[m], Column(pl, y_keys[m]))]
    ELSE <<>>

\* line 452: x_new = df.iloc[-1][x_keys], the readings y1..y9 of the latest
\* sample
x_new(latest) == [i \in 1 .. Len(x_keys) |-> Cell(latest, x_keys[i])]

\* line 453: y_new = df.iloc[-1][y_keys], the readings x7..x0 of the latest
\* sample
y_new(latest) == [i \in 1 .. Len(y_keys) |-> Cell(latest, y_keys[i])]

\* the call with the two series exchanged
position_list_Swapped(latest) == decide_pos(x_new(latest), y_new(latest))

\* line 457: position_list = RunMqtt.decide_pos(y_new, x_new)
position_list(latest) == decide_pos(y_new(latest), x_new(latest))

\* the operations on the shared objects, in program order, and the exception
\* that ends them
Publish(st) ==
    LET pl == st.plot_list
        latest == pl[Len(pl)]
        pos == position_list(latest)
    IN  IF DfEmpty(pl) THEN [ops |-> <<>>, exc |-> ""]
        ELSE IF ~(Range(x_keys) \cup Range(y_keys) \cup {"timestamp"} \subseteq Columns(pl))
        THEN [ops |-> <<>>, exc |-> "KeyError"]
        ELSE IF pos.exc # "" THEN [ops |-> <<>>, exc |-> pos.exc]
        ELSE IF ~SplitOk(latest)
        THEN [ops |-> PositionOps(st, pos) \o TimestampOps(st, latest),
              exc |-> IF "timestamp" \in DOMAIN latest THEN "IndexError"
                      ELSE "AttributeError"]
        ELSE [ops |-> PositionOps(st, pos) \o TimestampOps(st, latest) \o SeriesOps(pl),
              exc |-> ""]

(***************************************************************************)
(* RunMqtt.recmsg, the branch of a RigY report (lines 427-480).            *)
(***************************************************************************)
\* a push that evicts the newest sample of a full window
PushSample_EvictNewest(pl, sample) ==
    IF Len(pl) < WindowLen
    THEN LET appended == Append(pl, sample)
         IN  IF Cardinality(DOMAIN appended[1]) < CompleteLen + 1
             THEN Tail(appended) ELSE appended
    ELSE Append(SubSeq(pl, 1, Len(pl) - 1), sample)

\* a push that lets the window grow to 6 samples
PushSample_Grow(pl, sample) ==
    IF Len(pl) < WindowLen + 1
    THEN LET appended == Append(pl, sample)
         IN  IF Cardinality(DOMAIN appended[1]) < CompleteLen + 1
             THEN Tail(appended) ELSE appended
    ELSE Append(Tail(pl), sample)

\* lines 438-444
PushSample(pl, sample) ==
    IF Len(pl) < WindowLen
    THEN LET appended == Append(pl, sample)
         IN  IF Cardinality(DOMAIN appended[1]) < CompleteLen + 1
             THEN Tail(appended) ELSE appended
    ELSE Append(Tail(pl), sample)

\* a merge that also takes the timestamp of the RigY report
YMerge_WithTimestamp(d, rmsg) ==
    LET merged == Update(d, Converted(PopKey(rmsg, "timestampy")))
    IN  IF "timestamp" \in DOMAIN rmsg
        THEN SetKey(merged, "timestamp", rmsg["timestamp"]) ELSE merged

\* a merge that keeps only the fields of the report
YMerge_Replace(d, rmsg) == Converted(PopKey(rmsg, "timestampy"))

\* lines 430-431: rmsg.pop("timestampy", None); allData.update(...)
YMerge(d, rmsg) == Update(d, Converted(PopKey(rmsg, "timestampy")))

\* a threshold that lets a sample of 14 fields through
ShouldPersist_AtLeast(d) == Cardinality(DOMAIN d) >= CompleteLen

\* line 435: len(allData) > 14
ShouldPersist(d) == Cardinality(DOMAIN d) > CompleteLen

YPiBranch(st, rmsg) ==
    LET st1 == [st EXCEPT !.ypiReceived = 1]
    IN  IF ConvertFails(PopKey(rmsg, "timestampy"))
        THEN Outcome(st1, <<>>, "ValueError", FALSE, FALSE)
        ELSE
        LET merged == YMerge(st.allData, rmsg)
            st2 == [st EXCEPT !.allData = merged, !.ypiReceived = 0]
            persist == ShouldPersist(merged)
            written == IF persist THEN write_to_csv(st2, merged)
                       ELSE [st |-> st2, exc |-> ""]
        IN  IF written.exc # "" THEN Outcome(written.st, <<>>, written.exc, TRUE, FALSE)
            ELSE
            LET st3 == [written.st EXCEPT !.plot_list = PushSample(@, merged)]
                pub == Publish(st3)
            IN  Outcome(st3, pub.ops, pub.exc, persist, TRUE)

(***************************************************************************)
(* RunMqtt.recmsg: the handler of one report.                              *)
(***************************************************************************)
\* the handler with plot_list.append(allData) for lines 439 and 444: the
\* samples of the window are allData itself, not copies of it
recmsg_Aliased(st, rmsg) ==
    LET out == IF "origin" \notin DOMAIN rmsg
               THEN Outcome(st, <<>>, "KeyError", FALSE, FALSE)
               ELSE IF rmsg["origin"] = "XPi" THEN XPiBranch(st, rmsg)
               ELSE IF rmsg["origin"] = "YPi" THEN YPiBranch(st, rmsg)
               ELSE Outcome(st, <<>>, "", FALSE, FALSE)
    IN  [out EXCEPT !.st.plot_list = [k \in 1 .. Len(@) |-> out.st.allData]]

recmsg(st, rmsg) ==
    IF "origin" \notin DOMAIN rmsg THEN Outcome(st, <<>>, "KeyError", FALSE, FALSE)
    ELSE IF rmsg["origin"] = "XPi" THEN XPiBranch(st, rmsg)
    ELSE IF rmsg["origin"] = "YPi" THEN YPiBranch(st, rmsg)
    ELSE Outcome(st, <<>>, "", FALSE, FALSE)

\* the state after the handler has run to its end
Handled(st, rmsg) == ApplyOps(recmsg(st, rmsg).st, recmsg(st, rmsg).ops)

(***************************************************************************)
(* State.                                                                  *)
(***************************************************************************)
VARIABLES
    \* module globals of the ingestion process (lines 58-61, 72)
    allData, xpiReceived, ypiReceived, plot_list, write_header,
    \* the lines of the CSV file
    csv_file,
    \* the objects of the multiprocessing.Manager (lines 507-511)
    list_x, list_y, timestamp_list, x_sensor_data_dict, y_sensor_data_dict,
    \* the operations on the shared objects that the running recmsg has still
    \* to perform (empty between two reports)
    pending,
    \* PlotSensorData.update: its position and what it has read so far
    reader,
    \* history: what the last reports were and did
    hist,
    \* history, kept where recmsg is interleaved with the reader: the shared
    \* series at every report boundary
    gens,
    \* decide_pos called on its own: its arguments and what it returned
    cls,
    \* PlotPosition.animate: its position and what it has read so far
    animator

vars ==
    << allData, xpiReceived, ypiReceived, plot_list, write_header, csv_file,
       list_x, list_y, timestamp_list, x_sensor_data_dict, y_sensor_data_dict,
       pending, reader, hist, gens, cls, animator >>

State ==
    [allData |-> allData, xpiReceived |-> xpiReceived, ypiReceived |-> ypiReceived,
     plot_list |-> plot_list, write_header |-> write_header, csv_file |-> csv_file,
     list_x |-> list_x, list_y |-> list_y, timestamp_list |-> timestamp_list,
     x_sensor_data_dict |-> x_sensor_data_dict,
     y_sensor_data_dict |-> y_sensor_data_dict]

SetState(st) ==
    /\ allData' = st.allData
    /\ xpiReceived' = st.xpiReceived
    /\ ypiReceived' = st.ypiReceived
    /\ plot_list' = st.plot_list
    /\ write_header' = st.write_header
    /\ csv_file' = st.csv_file
    /\ list_x' = st.list_x
    /\ list_y' = st.list_y
    /\ timestamp_list' = st.timestamp_list
    /\ x_sensor_data_dict' = st.x_sensor_data_dict
    /\ y_sensor_data_dict' = st.y_sensor_data_dict

\* the program as the module is loaded and __main__ has built the manager
InitState ==
    [allData |-> EmptyDict, xpiReceived |-> 0, ypiReceived |-> 0,
     plot_list |-> <<>>, write_header |-> TRUE, csv_file |-> <<>>,
     list_x |-> <<>>, list_y |-> <<>>, timestamp_list |-> <<>>,
     x_sensor_data_dict |-> EmptyDict, y_sensor_data_dict |-> EmptyDict]

InitReader == [pc |-> "idle", i |-> 0, x_axis |-> <<>>, series |-> EmptyDict, reads |-> 0]

InitHist ==
    [nmsgs |-> 0, nbad |-> 0,
     last |-> [i |-> 0, exc |-> "", pre |-> InitState, called |-> FALSE,
               appended |-> FALSE, xcontrib |-> FALSE, ycontrib |-> FALSE],
     prev |-> [i |-> 0, exc |-> ""],
     pushed |-> <<>>, kept |-> <<>>, xSince |-> FALSE, ySince |-> FALSE, xrep |-> 0]

\* the history after report i, handled from state st with outcome out:
\*   last, prev  the last two reports, how they ended, the state before the last
\*   pushed      the samples appended to plot_list (lines 439, 444)
\*   kept        those of them that line 441 did not drop at once
\*   xSince      a RigX report has put a value into allData since the last emission
\*   ySince      a RigY report has put a value into allData since the last emission
\*   xrep        the last RigX report handled to its end
Track(h, st, i, out) ==
    LET isX == "origin" \in DOMAIN Reports[i] /\ Reports[i]["origin"] = "XPi"
        contributed == /\ isX
                       /\ "piezoString" \in DOMAIN Reports[i]
                       /\ PzConverted(Reports[i]["piezoString"], 0) > 0
        retained == out.appended /\ out.st.plot_list # <<>>
        merged == /\ "origin" \in DOMAIN Reports[i] /\ Reports[i]["origin"] = "YPi"
                  /\ out.st.ypiReceived = 0
                  /\ NumericKeys(Reports[i]) # {}
    IN  [nmsgs |-> h.nmsgs + 1,
         nbad |-> IF i \in BadReports THEN h.nbad + 1 ELSE h.nbad,
         last |-> [i |-> i, exc |-> out.exc, pre |-> st, called |-> out.called,
                   appended |-> out.appended, xcontrib |-> h.xSince,
                   ycontrib |-> h.ySince],
         prev |-> [i |-> h.last.i, exc |-> h.last.exc],
         pushed |-> IF out.appended THEN Append(h.pushed, out.st.allData) ELSE h.pushed,
         kept |-> IF retained THEN Append(h.kept, out.st.allData) ELSE h.kept,
         xSince |-> IF out.called \/ retained THEN FALSE
                    ELSE IF contributed THEN TRUE
                    ELSE h.xSince,
         ySince |-> IF out.called \/ retained THEN FALSE
                    ELSE IF merged THEN TRUE
                    ELSE h.ySince,
         xrep |-> IF isX /\ out.exc = "" THEN i ELSE h.xrep]

\* decide_pos is not being called on its own
NoCall == [pc |-> "none", a |-> <<>>, b |-> <<>>, out |-> NoPositions]

Generation(st) ==
    [ts |-> st.timestamp_list, x |-> st.x_sensor_data_dict, y |-> st.y_sensor_data_dict,
     list_x |-> st.list_x, list_y |-> st.list_y]

\* animate is not running: pc counts the reads of the running call,
\* got holds list_x[0], list_y[0], list_x[1], list_y[1] as read
InitAnimator == [pc |-> "idle", got |-> <<>>, calls |-> 0]

IsState(st) ==
    /\ allData = st.allData
    /\ xpiReceived = st.xpiReceived
    /\ ypiReceived = st.ypiReceived
    /\ plot_list = st.plot_list
    /\ write_header = st.write_header
    /\ csv_file = st.csv_file
    /\ list_x = st.list_x
    /\ list_y = st.list_y
    /\ timestamp_list = st.timestamp_list
    /\ x_sensor_data_dict = st.x_sensor_data_dict
    /\ y_sensor_data_dict = st.y_sensor_data_dict

Init ==
    /\ IsState(InitState)
    /\ pending = <<>>
    /\ reader = InitReader
    /\ hist = InitHist
    /\ gens = << Generation(InitState) >>
    /\ cls = NoCall
    /\ animator = InitAnimator

(***************************************************************************)
(* Actions of the ingestion process: paho calls recmsg (client.on_message) *)
(* for one report at a time.  A handler that raises ends there with the    *)
(* assignments it has made; the client goes on to the next report.         *)
(***************************************************************************)
OriginOf(i) == IF "origin" \in DOMAIN Reports[i] THEN Reports[i]["origin"] ELSE ""

\* recmsg runs on report i; atomic: to its end, otherwise up to its first
\* operation on a shared object
Deliver(i, atomic, max) ==
    LET out == recmsg(State, Reports[i])
    IN  /\ pending = <<>>
        /\ hist.nmsgs < max
        /\ i \in BadReports => hist.nbad < MaxBad
        /\ SetState(IF atomic THEN ApplyOps(out.st, out.ops) ELSE out.st)
        /\ pending' = IF atomic THEN <<>> ELSE out.ops
        /\ hist' = Track(hist, State, i, out)
        /\ gens' = IF ~atomic /\ out.ops = <<>>
                   THEN Append(gens, Generation(out.st))
                   ELSE gens
        /\ UNCHANGED << reader, cls, animator >>

RecvXPi == \E i \in 1 .. Len(Reports) : OriginOf(i) = "XPi" /\ Deliver(i, TRUE, MaxReports)
RecvYPi == \E i \in 1 .. Len(Reports) : OriginOf(i) = "YPi" /\ Deliver(i, TRUE, MaxReports)
RecvOther ==
    \E i \in 1 .. Len(Reports) : OriginOf(i) \notin {"XPi", "YPi"} /\ Deliver(i, TRUE, MaxReports)

Next == RecvXPi \/ RecvYPi \/ RecvOther

Spec == Init /\ [][Next]_vars

(***************************************************************************)
(* The ingestion process interleaved with the plotting process p_3.  Each  *)
(* operation on a manager proxy is one step; what recmsg does to its own   *)
(* globals is invisible to the reader and is one step with the delivery.   *)
(***************************************************************************)
\* the reports that have arrived when a plotting process starts (lines 525-529)
Warmup == <<1, 3, 3, 3, 3, 3>>

TrackedStep(f, i) ==
    LET out == recmsg(f.st, Reports[i])
    IN  [st |-> ApplyOps(out.st, out.ops), h |-> Track(f.h, f.st, i, out)]

RECURSIVE RunTracked(_, _)
RunTracked(f, seq) ==
    IF seq = <<>> THEN f ELSE RunTracked(TrackedStep(f, Head(seq)), Tail(seq))

Warm == RunTracked([st |-> InitState, h |-> InitHist], Warmup)

\* the plotting process starts on a fresh program or after the warm-up;
\* hist.nmsgs counts the reports delivered from then on
InitConc ==
    /\ IsState(InitState) \/ IsState(Warm.st)
    /\ pending = <<>>
    /\ reader = InitReader
    /\ hist = IF IsState(InitState) THEN InitHist ELSE [Warm.h EXCEPT !.nmsgs = 0]
    /\ gens = << Generation(State) >>
    /\ cls = NoCall
    /\ animator = InitAnimator

ConcRecv == \E i \in GoodReports : Deliver(i, FALSE, MaxConcReports)

\* recmsg performs its next operation on a shared object
WriterStep ==
    /\ pending # <<>>
    /\ SetState(ApplyOp(State, Head(pending)))
    /\ pending' = Tail(pending)
    /\ gens' = IF Tail(pending) = <<>>
               THEN Append(gens, Generation(ApplyOp(State, Head(pending))))
               ELSE gens
    /\ UNCHANGED << reader, hist, cls, animator >>

UnchangedProgram ==
    UNCHANGED << allData, xpiReceived, ypiReceived, plot_list, write_header, csv_file,
                 list_x, list_y, timestamp_list, x_sensor_data_dict,
                 y_sensor_data_dict, pending, hist, gens, cls, animator >>

\* PlotSensorData.update is called (line 190)
ReaderStart ==
    /\ reader.pc \in {"idle", "done", "failed"}
    /\ reader.reads < MaxReads
    /\ reader' = [pc |-> "ts", i |-> 0, x_axis |-> <<>>, series |-> EmptyDict,
                  reads |-> reader.reads + 1]
    /\ UnchangedProgram

\* line 192: the list proxy is iterated by timestamp_list[0], [1], ... up to
\* the IndexError
ReaderTs ==
    /\ reader.pc = "ts"
    /\ reader' = IF reader.i < Len(timestamp_list)
                 THEN [reader EXCEPT !.x_axis = Append(@, timestamp_list[reader.i + 1]),
                                     !.i = @ + 1]
                 ELSE [reader EXCEPT !.pc = "x", !.i = 0]
    /\ UnchangedProgram

\* lines 195-203: x_sensor_data_dict[x_keys[i]]; lines 205-222 need x_axis[0]
ReaderX ==
    /\ reader.pc = "x"
    /\ LET k == x_keys[reader.i + 1]
       IN  reader' =
             IF k \notin DOMAIN x_sensor_data_dict THEN [reader EXCEPT !.pc = "failed"]
             ELSE IF reader.i + 1 < Len(x_keys)
             THEN [reader EXCEPT !.series = SetKey(@, k, x_sensor_data_dict[k]),
                                 !.i = @ + 1]
             ELSE [reader EXCEPT !.series = SetKey(@, k, x_sensor_data_dict[k]),
                                 !.i = 0,
                                 !.pc = IF reader.x_axis = <<>> THEN "failed" ELSE "y"]
    /\ UnchangedProgram

\* lines 225-232: y_sensor_data_dict[y_keys[i]]
ReaderY ==
    /\ reader.pc = "y"
    /\ LET k == y_keys[reader.i + 1]
       IN  reader' =
             IF k \notin DOMAIN y_sensor_data_dict THEN [reader EXCEPT !.pc = "failed"]
             ELSE [reader EXCEPT !.series = SetKey(@, k, y_sensor_data_dict[k]),
                                 !.i = IF reader.i + 1 < Len(y_keys) THEN @ + 1 ELSE 0,
                                 !.pc = IF reader.i + 1 < Len(y_keys) THEN "y" ELSE "done"]
    /\ UnchangedProgram

NextConc == ConcRecv \/ WriterStep \/ ReaderStart \/ ReaderTs \/ ReaderX \/ ReaderY

SpecConc == InitConc /\ [][NextConc]_vars

(***************************************************************************)
(* PlotPosition.animate (lines 290-295), interleaved with recmsg: each     *)
(* self.list_x[j], self.list_y[j] is one request to the manager, which     *)
(* answers with a copy of the element or with IndexError.                  *)
(***************************************************************************)
\* the element that the n-th read of animate asks for: <<proxy, index>>
AnimateReads == << << "list_x", 0 >>, << "list_y", 0 >>, << "list_x", 1 >>, << "list_y", 1 >> >>

\* FuncAnimation calls animate (line 290)
AnimateStart ==
    /\ animator.pc \in {"idle", "done", "failed"}
    /\ animator.calls < MaxReads
    /\ animator' = [pc |-> "reading", got |-> <<>>, calls |-> animator.calls + 1]
    /\ UNCHANGED << allData, xpiReceived, ypiReceived, plot_list, write_header,
                    csv_file, list_x, list_y, timestamp_list, x_sensor_data_dict,
                    y_sensor_data_dict, pending, reader, hist, gens, cls >>

\* lines 293-294: the next of the four reads
AnimateRead ==
    /\ animator.pc = "reading"
    /\ LET r == AnimateReads[Len(animator.got) + 1]
           proxy == IF r[1] = "list_x" THEN list_x ELSE list_y
       IN  animator' =
             IF ~PyInRange(proxy, r[2]) THEN [animator EXCEPT !.pc = "failed"]
             ELSE [animator EXCEPT
                     !.got = Append(@, PyAt(proxy, r[2])),
                     !.pc = IF Len(animator.got) + 1 = Len(AnimateReads)
                            THEN "done" ELSE "reading"]
    /\ UNCHANGED << allData, xpiReceived, ypiReceived, plot_list, write_header,
                    csv_file, list_x, list_y, timestamp_list, x_sensor_data_dict,
                    y_sensor_data_dict, pending, reader, hist, gens, cls >>

NextAnimate == ConcRecv \/ WriterStep \/ AnimateStart \/ AnimateRead

SpecAnimate == InitConc /\ [][NextAnimate]_vars

(***************************************************************************)
(* decide_pos called on its own, on series of the sizes that line 457      *)
(* passes: a has one reading per key of y_keys, b one per key of x_keys.   *)
(***************************************************************************)
\* readings below 250, and one that is not
LowReadings == {-230000, -30000, 20000, 249990}
FarReading == 260000
\* a reading below 180, and one that is not
NearReading == 150000
ClearReading == 200000

\* the sequences of n values that are dflt but at max indexes or fewer, where
\* they are in vals
Sparse(n, max, vals, dflt) ==
    {s \in [1 .. n -> vals \cup {dflt}] :
        Cardinality({i \in 1 .. n : s[i] # dflt}) <= max}

IteratedSeries == Sparse(Len(y_keys), MaxLow, LowReadings, FarReading)
LookupSeries == Sparse(Len(x_keys), MaxNear, {NearReading}, ClearReading)

InitClassify ==
    /\ IsState(InitState)
    /\ pending = <<>>
    /\ reader = InitReader
    /\ hist = InitHist
    /\ gens = << Generation(InitState) >>
    /\ \E a \in IteratedSeries, b \in LookupSeries :
          cls = [pc |-> "call", a |-> a, b |-> b, out |-> NoPositions]
    /\ animator = InitAnimator

\* position_list = RunMqtt.decide_pos(y_new, x_new)
Classify ==
    /\ cls.pc = "call"
    /\ cls' = [cls EXCEPT !.pc = "done", !.out = decide_pos(cls.a, cls.b)]
    /\ UNCHANGED << allData, xpiReceived, ypiReceived, plot_list, write_header,
                    csv_file, list_x, list_y, timestamp_list, x_sensor_data_dict,
                    y_sensor_data_dict, pending, reader, hist, gens, animator >>

NextClassify == Classify

SpecClassify == InitClassify /\ [][NextClassify]_vars

(***************************************************************************)
(* Properties.                                                             *)
(***************************************************************************)
LastOrigin == IF hist.last.i = 0 THEN "" ELSE OriginOf(hist.last.i)
PrevOrigin == IF hist.prev.i = 0 THEN "" ELSE OriginOf(hist.prev.i)

\* the last report was a RigY report and its merge (line 431) was done
LastMergedY == LastOrigin = "YPi" /\ ypiReceived = 0

\* the last report left its sample in the window
LastRetained == hist.last.appended /\ plot_list # <<>>

\* the last report emitted its sample: persisted it or left it in the window
LastEmitted == hist.last.called \/ LastRetained

\* the last n elements of a sequence
LastN(seq, n) == SubSeq(seq, Len(seq) - n + 1, Len(seq))

\* C1: a sample is emitted (handed to write_to_csv or left in plot_list) only
\* when a RigX report has contributed since the previous emission, the RigY
\* report being the one that emits it.
C1_EmittedOncePerPair == LastEmitted => hist.last.xcontrib

\* C2: every sample in plot_list has more than 14 fields.
C2_WindowSamplesComplete ==
    \A k \in 1 .. Len(plot_list) : Cardinality(DOMAIN plot_list[k]) > CompleteLen

\* C3: write_to_csv is called exactly by a RigY report whose merge was done
\* and left more than 14 fields in allData, and the row it writes is allData;
\* any other report, a RigX report in particular, leaves the CSV file as it
\* was.
C3_PersistIffComplete ==
    hist.last.i # 0 =>
        /\ hist.last.called <=>
              (LastMergedY /\ Cardinality(DOMAIN allData) > CompleteLen)
        /\ hist.last.called /\ hist.last.exc = "" =>
              /\ Len(csv_file) > Len(hist.last.pre.csv_file)
              /\ csv_file[Len(csv_file)] = RowLine(allData)
        /\ ~hist.last.called => csv_file = hist.last.pre.csv_file

C3_Witness ==
    /\ LastMergedY /\ hist.last.called /\ hist.last.exc = ""
    /\ csv_file[Len(csv_file)] = RowLine(allData)
    /\ Cardinality(DOMAIN allData) > CompleteLen

\* C4 as stated: once more than 5 samples have been appended to plot_list,
\* one per handled RigY report, plot_list is the last 5 of them.
C4_WindowIsLast5Pushed ==
    Len(hist.pushed) > WindowLen => plot_list = LastN(hist.pushed, WindowLen)

\* C4 as amended: plot_list is the last 5 (all, while there are fewer) of the
\* samples appended and not dropped at once by line 441, oldest first.
C4_WindowIsLast5Kept ==
    /\ Len(hist.kept) > WindowLen => plot_list = LastN(hist.kept, WindowLen)
    /\ Len(hist.kept) <= WindowLen => plot_list = hist.kept

C4_Witness ==
    /\ Len(hist.kept) > WindowLen
    /\ hist.kept[1] # hist.kept[Len(hist.kept)]
    /\ plot_list[1] = hist.kept[Len(hist.kept) - WindowLen + 1]

\* C5: plot_list never holds more than 5 samples.
C5_WindowAtMost5 == Len(plot_list) <= WindowLen

C5_Witness ==
    /\ Len(plot_list) = WindowLen
    /\ Len(hist.last.pre.plot_list) = WindowLen
    /\ hist.last.appended /\ hist.last.exc # ""

\* C6 as stated: the timestamp of a sample emitted by a RigY report is the
\* timestamp that report carries.
C6_TimestampFromY ==
    LastMergedY /\ LastEmitted =>
        /\ "timestamp" \in DOMAIN allData
        /\ allData["timestamp"] = Reports[hist.last.i]["timestamp"]

\* C6 as amended: a RigY report leaves the timestamp of allData as it was, and
\* the timestamp of allData, when it has one, is the timestamp of the last
\* RigX report that was handled to its end.
C6_TimestampFromX ==
    /\ LastOrigin = "YPi" =>
          /\ "timestamp" \in DOMAIN allData <=> "timestamp" \in DOMAIN hist.last.pre.allData
          /\ "timestamp" \in DOMAIN allData =>
                allData["timestamp"] = hist.last.pre.allData["timestamp"]
    /\ "timestamp" \in DOMAIN allData =>
          /\ hist.xrep # 0
          /\ allData["timestamp"] = Reports[hist.xrep]["timestamp"]
    /\ LastRetained => plot_list[Len(plot_list)] = allData

C6_Witness ==
    /\ LastMergedY /\ LastRetained /\ hist.last.called
    /\ "timestamp" \in DOMAIN Reports[hist.last.i]
    /\ "timestamp" \in DOMAIN plot_list[Len(plot_list)]
    /\ plot_list[Len(plot_list)]["timestamp"] # Reports[hist.last.i]["timestamp"]

\* a RigX report handled to its end, then a RigY report that was merged, the
\* two with disjoint field names
XThenY ==
    /\ PrevOrigin = "XPi" /\ hist.prev.exc = ""
    /\ LastMergedY
    /\ NumericKeys(Reports[hist.prev.i]) \cap NumericKeys(Reports[hist.last.i]) = {}
    /\ Range(pz_names) \cap NumericKeys(Reports[hist.last.i]) = {}

\* every named numeric field of the two reports is in allData, rounded
UnionOfFields ==
    LET X == Reports[hist.prev.i]
        Y == PopKey(Reports[hist.last.i], "timestampy")
    IN  /\ \A k \in NumericKeys(X) : k \in DOMAIN allData /\ allData[k] = Round2(X[k])
        /\ \A k \in NumericKeys(Y) : k \in DOMAIN allData /\ allData[k] = Round2(Y[k])

\* C7 as stated: after a RigX and then a RigY report with disjoint field
\* names allData holds the fields of both, and every value in it is rounded
\* to 2 decimal places.
C7_UnionAllRounded ==
    XThenY =>
        /\ UnionOfFields
        /\ \A k \in DOMAIN allData \ {"timestamp"} : allData[k] = Round2(allData[k])

\* C7 as amended: allData holds every named numeric field of both reports,
\* rounded to 2 decimal places, the 4 values of the packed string as they were
\* parsed, unrounded, and the timestamp of the RigX report.
C7_UnionMerged ==
    XThenY =>
        /\ UnionOfFields
        /\ \A j \in 1 .. Len(pz_names) :
              /\ pz_names[j] \in DOMAIN allData
              /\ allData[pz_names[j]] = Reports[hist.prev.i]["piezoString"][j]
        /\ allData["timestamp"] = Reports[hist.prev.i]["timestamp"]
        /\ DOMAIN allData \cap {"origin", "piezoString", "timestampy"} = {}

C7_Witness ==
    /\ XThenY
    /\ allData["pz0"] # Round2(allData["pz0"])
    /\ allData["y1"] # Reports[hist.prev.i]["y1"]
    /\ allData["x6"] # Reports[hist.last.i]["x6"]

\* report i lacks a required field: the origin tag or, for a RigX report,
\* the packed string or one of its 4 tokens
MissingRequired(i) ==
    \/ "origin" \notin DOMAIN Reports[i]
    \/ /\ Reports[i]["origin"] = "XPi"
       /\ \/ "piezoString" \notin DOMAIN Reports[i]
          \/ Len(Reports[i]["piezoString"]) < Len(pz_names)

\* C8: when the handling of a report fails because a required field is
\* missing, allData is what it was before the report.
C8_FailedReportLeavesSample ==
    (hist.last.i # 0 /\ hist.last.exc # "" /\ MissingRequired(hist.last.i)) =>
        allData = hist.last.pre.allData

\* the state after the reports of seq (indices into Reports) were handled
RECURSIVE RunReports(_, _)
RunReports(st, seq) ==
    IF seq = <<>> THEN st
    ELSE RunReports(Handled(st, Reports[Head(seq)]), Tail(seq))

LaterReports == UNION {[1 .. n -> GoodReports] : n \in 1 .. Lookahead}

RowsOf(file) == SelectSeq(file, LAMBDA line : line.kind = "row")

\* what C9 compares: the in-progress sample, the window, the persisted rows
Observed(st) == << st.allData, st.plot_list, RowsOf(st.csv_file) >>

\* C9: after a report whose handling failed, every later sequence of reports
\* leaves the sample, the window and the persisted rows as it would have left
\* them had the failed report never arrived.
C9_FailedReportIsolated ==
    (hist.last.i # 0 /\ hist.last.exc # "") =>
        \A seq \in LaterReports :
            Observed(RunReports(State, seq)) = Observed(RunReports(hist.last.pre, seq))

\* what a finished pass of update has read is the shared series of generation g
ReadIs(g) ==
    /\ reader.x_axis = g.ts
    /\ \A k \in Range(x_keys) : k \in DOMAIN g.x /\ reader.series[k] = g.x[k]
    /\ \A k \in Range(y_keys) : k \in DOMAIN g.y /\ reader.series[k] = g.y[k]

\* C10: the timestamp series and the 17 field series that one pass of update
\* reads are those of one generation of the window: the shared series as they
\* were at one report boundary.
C10_ReaderSeesOneGeneration ==
    reader.pc = "done" => \E j \in 1 .. Len(gens) : ReadIs(gens[j])

\* C11 as stated: a report handled while the window holds fewer than 5 samples
\* leaves the published position groups as they were.
C11_PositionsOnlyAtFive ==
    Len(plot_list) < WindowLen =>
        /\ list_x = hist.last.pre.list_x
        /\ list_y = hist.last.pre.list_y

\* the position groups that lines 457-468 publish for the sample last pushed
PublishedFor(sample) ==
    LET pos == decide_pos([i \in 1 .. Len(y_keys) |-> Cell(sample, y_keys[i])],
                          [i \in 1 .. Len(x_keys) |-> Cell(sample, x_keys[i])])
    IN  [list_x |-> << pos.green_x, pos.red_x >>, list_y |-> << pos.green_y, pos.red_y >>]

\* C11: the position groups are published by every RigY report that is
\* handled to its end and leaves a sample in the window, whatever the size of
\* the window, and are changed by no other report handled to its end; the
\* per-sensor series are the ones published only when the window holds
\* exactly 5 samples.
C11_PositionsWheneverNonEmpty ==
    hist.last.i # 0 /\ hist.last.exc = "" =>
        /\ LastRetained =>
              /\ list_x = PublishedFor(plot_list[Len(plot_list)]).list_x
              /\ list_y = PublishedFor(plot_list[Len(plot_list)]).list_y
        /\ ~LastRetained =>
              /\ list_x = hist.last.pre.list_x
              /\ list_y = hist.last.pre.list_y
        /\ (\/ x_sensor_data_dict # hist.last.pre.x_sensor_data_dict
            \/ y_sensor_data_dict # hist.last.pre.y_sensor_data_dict)
              => LastRetained /\ Len(plot_list) = WindowLen
        /\ Len(plot_list) < WindowLen =>
              /\ x_sensor_data_dict = hist.last.pre.x_sensor_data_dict
              /\ y_sensor_data_dict = hist.last.pre.y_sensor_data_dict

\* positions were published for a window of fewer than 5 samples, and changed
\* by the report that filled it, which published the series for the first time
C11_Witness ==
    /\ LastRetained /\ hist.last.exc = ""
    /\ Len(plot_list) = WindowLen
    /\ Len(hist.last.pre.plot_list) < WindowLen
    /\ hist.last.pre.list_x # <<>>
    /\ list_x[2] # <<>>
    /\ DOMAIN hist.last.pre.x_sensor_data_dict = {}
    /\ DOMAIN x_sensor_data_dict # {}

\* decide_pos has returned, without an exception
Classified == cls.pc = "done" /\ cls.out.exc = ""

\* the 0-based indexes of a whose reading is below 250
LowAt(a) == {i \in 0 .. Len(a) - 1 : Lt(a[i + 1], NoDetection)}

\* the positions decide_pos returned for index i, as <<group, x>>
PositionsAt(out, i) ==
    {<< "Seated", out.green_x[k] >> :
        k \in {n \in 1 .. Len(out.green_y) : out.green_y[n] = 250 * (i + 1)}}
    \cup {<< "Standing", out.red_x[k] >> :
        k \in {n \in 1 .. Len(out.red_y) : out.red_y[n] = 250 * (i + 1)}}

\* C12: for a series in which only index 0 is below 250, decide_pos returns
\* exactly one position, at (reading, 250/9), Seated when both looked-up
\* readings are at least 180 and Standing otherwise.
C12_IndexZeroContributes ==
    Classified /\ LowAt(cls.a) = {0} =>
        LET d == cls.a[1]
            x_point == TruncDiv(d, BucketWidth)
            near == \/ Lt(PyAt(cls.b, x_point - 1), StandingBelow)
                    \/ Lt(PyAt(cls.b, x_point - 2), StandingBelow)
        IN  /\ Len(cls.out.green_x) + Len(cls.out.red_x) = 1
            /\ PositionsAt(cls.out, 0) = {<< IF near THEN "Standing" ELSE "Seated", d >>}

\* C13 as stated: of two adjacent indexes whose readings are both below 250,
\* the first contributes a position and the second does not.
C13_FirstOfPairContributes ==
    Classified =>
        \A i \in LowAt(cls.a) :
            i + 1 \in LowAt(cls.a) =>
                /\ PositionsAt(cls.out, i) # {}
                /\ PositionsAt(cls.out, i + 1) = {}

\* index i is skipped by line 359: it is index 0, or index i - 1 contributed
SkippedAt(out, i) == i = 0 \/ PositionsAt(out, i - 1) # {}

\* C13: of two adjacent indexes whose readings are both below 250, exactly
\* one contributes a position: the first, unless the first is itself skipped
\* (it is index 0, or the index before it contributed), and then the second;
\* an index that follows a contributing index never contributes.
C13_OneOfPairContributes ==
    Classified =>
        /\ \A i \in LowAt(cls.a) :
              i + 1 \in LowAt(cls.a) =>
                  /\ Cardinality(PositionsAt(cls.out, i))
                       + Cardinality(PositionsAt(cls.out, i + 1)) = 1
                  /\ PositionsAt(cls.out, i) # {} <=> ~SkippedAt(cls.out, i)
        /\ \A i \in 0 .. Len(cls.a) - 2 :
              PositionsAt(cls.out, i) # {} => PositionsAt(cls.out, i + 1) = {}

\* three adjacent readings below 250, the first and the third contributing
C13_Witness ==
    /\ Classified
    /\ \E i \in 1 .. Len(cls.a) - 3 :
          /\ {i, i + 1, i + 2} \subseteq LowAt(cls.a)
          /\ PositionsAt(cls.out, i) # {}
          /\ PositionsAt(cls.out, i + 1) = {}
          /\ PositionsAt(cls.out, i + 2) # {}

\* the header lines of the CSV file
HeaderLines == {k \in 1 .. Len(csv_file) : csv_file[k] = HeaderLine}

\* C14: once write_to_csv has been called, whether or not its row was
\* written, the CSV file holds exactly one header line, its first line.
C14_HeaderOnce ==
    csv_file # <<>> => HeaderLines = {1}

\* C15: a RigX report that arrives while a sample is in progress (a RigX or a
\* RigY report has contributed since the last emission) merges into it: no
\* field of the in-progress sample is lost.
C15_ClearOnlyAfterCompletion ==
    /\ LastOrigin = "XPi" /\ hist.last.exc = ""
    /\ hist.last.xcontrib \/ hist.last.ycontrib
    => DOMAIN hist.last.pre.allData \subseteq DOMAIN allData

\* C16: a RigY report removes no field from allData and changes only the
\* fields it carries, also when it follows an emission with no RigX report
\* between; the sample it emits (the row written, the sample left in the
\* window) carries the fields of the earlier reports.
C16_YKeepsFields ==
    LastOrigin = "YPi" =>
        LET old == hist.last.pre.allData
            own == NumericKeys(PopKey(Reports[hist.last.i], "timestampy"))
        IN  /\ DOMAIN old \subseteq DOMAIN allData
            /\ \A k \in DOMAIN old \ own : allData[k] = old[k]
            /\ LastRetained => plot_list[Len(plot_list)] = allData
            /\ hist.last.called /\ hist.last.exc = ""
                  => csv_file[Len(csv_file)] = RowLine(allData)

\* a second RigY report in a row has emitted a sample that carries the
\* values of the RigX report before them
C16_Witness ==
    /\ LastOrigin = "YPi" /\ PrevOrigin = "YPi"
    /\ hist.last.called /\ LastRetained /\ hist.last.exc = ""
    /\ hist.last.pre.csv_file # <<>>
    /\ {"pz0", "y1", "timestamp"} \subseteq DOMAIN plot_list[Len(plot_list)]
    /\ csv_file[Len(csv_file)] = RowLine(allData)

\* b[j] is read as Python reads it, and is below 180
LookupBelow(b, j) == PyInRange(b, j) /\ Lt(PyAt(b, j), StandingBelow)

\* every contributing index has a reading below 250 and one position, in the
\* group that the lookups at bucket - 1 and bucket - 2 decide
GroupedBy(bucket(_)) ==
    Classified =>
        \A i \in 0 .. Len(cls.a) - 1 :
            PositionsAt(cls.out, i) # {} =>
                LET d == cls.a[i + 1]
                    near == \/ LookupBelow(cls.b, bucket(d) - 1)
                            \/ LookupBelow(cls.b, bucket(d) - 2)
                IN  /\ Lt(d, NoDetection)
                    /\ PositionsAt(cls.out, i)
                         = {<< IF near THEN "Standing" ELSE "Seated", d >>}

FloorBucket(d) == d \div BucketWidth
IntBucket(d) == IF d >= 0 THEN d \div BucketWidth ELSE -((-d) \div BucketWidth)

\* C17 as stated: the bucket of a reading d below 250, negative or not, is
\* floor(d / 28).
C17_BucketIsFloor == GroupedBy(FloorBucket)

\* C17: the bucket of a reading d below 250 is d / 28 truncated toward zero
\* (floor(d / 28) when d is not negative); the position of a contributing
\* index is Standing iff the lookup reading at bucket - 1 or at bucket - 2,
\* negative indexes counting from the end, is below 180, and Seated
\* otherwise, never both.
C17_BucketIsTruncated == GroupedBy(IntBucket)

\* a negative reading that is no multiple of 28 has contributed, on a lookup
\* where the two roundings disagree
C17_Witness ==
    /\ Classified
    /\ \E i \in 0 .. Len(cls.a) - 1 :
          /\ PositionsAt(cls.out, i) # {}
          /\ cls.a[i + 1] < 0
          /\ FloorBucket(cls.a[i + 1]) # IntBucket(cls.a[i + 1])
          /\ LookupBelow(cls.b, IntBucket(cls.a[i + 1]) - 1)
               # LookupBelow(cls.b, FloorBucket(cls.a[i + 1]) - 1)

\* the last report has published the position groups
LastPublished == LastRetained /\ hist.last.exc = ""

\* the position groups that decide_pos returns for iterated series a and
\* lookup series b are the published ones
PublishedFrom(a, b) ==
    LET pos == decide_pos(a, b)
    IN  /\ pos.exc = ""
        /\ list_x = << pos.green_x, pos.red_x >>
        /\ list_y = << pos.green_y, pos.red_y >>

\* C18 as stated: the iterated series is the one of 9 readings (y1..y9 of the
\* latest sample), the lookup series the one of 8 (x7..x0).
C18_NineIterated ==
    LastPublished =>
        LET latest == plot_list[Len(plot_list)]
            nine == [i \in 1 .. Len(x_keys) |-> Cell(latest, x_keys[i])]
            eight == [i \in 1 .. Len(y_keys) |-> Cell(latest, y_keys[i])]
        IN  PublishedFrom(nine, eight)

\* C18: the iterated series is the one of 8 readings (x7..x0 of the latest
\* sample), the lookup series the one of 9 (y1..y9); every published
\* position belongs to one of the indexes 1 to 7 of the iterated series, at
\* lateral (250 / 9) * (i + 1), 8 * 250 / 9 at most.
C18_EightIterated ==
    LastPublished =>
        LET latest == plot_list[Len(plot_list)]
            nine == [i \in 1 .. Len(x_keys) |-> Cell(latest, x_keys[i])]
            eight == [i \in 1 .. Len(y_keys) |-> Cell(latest, y_keys[i])]
        IN  /\ PublishedFrom(eight, nine)
            /\ \A g \in 1 .. 2 : \A n \in 1 .. Len(list_y[g]) :
                  \E i \in 1 .. Len(eight) - 1 :
                      /\ list_y[g][n] = 250 * (i + 1)
                      /\ list_x[g][n] = eight[i + 1]

\* positions of both groups have been published
C18_Witness ==
    /\ LastPublished
    /\ list_x[1] # <<>>
    /\ list_x[2] # <<>>

\* C19: between two reports, timestamp_list is as long as plot_list and its
\* k-th entry is the clock time (the second token of the timestamp) of the
\* k-th sample of plot_list.
C19_TimestampsInLockstep ==
    /\ Len(timestamp_list) = Len(plot_list)
    /\ \A k \in 1 .. Len(plot_list) :
          /\ SplitOk(plot_list[k])
          /\ timestamp_list[k] = plot_list[k]["timestamp"][2]

\* C20: a report leaves the samples of plot_list as they were: the window
\* after it is the window before it, less its oldest sample or not, plus the
\* sample the report has pushed or not; and the samples of the window are the
\* last samples kept, as they were when pushed.
C20_BufferedSamplesKept ==
    hist.last.i # 0 =>
        LET old == hist.last.pre.plot_list
            rest == IF plot_list = <<>> THEN <<>>
                    ELSE SubSeq(plot_list, 1, Len(plot_list) - 1)
        IN  /\ \/ plot_list = old
               \/ /\ hist.last.appended
                  /\ \/ rest = old /\ plot_list # <<>>
                     \/ old # <<>> /\ rest = Tail(old) /\ plot_list # <<>>
                     \/ old # <<>> /\ plot_list = Tail(old)
            /\ Len(plot_list) <= Len(hist.kept)
            /\ plot_list = LastN(hist.kept, Len(plot_list))

\* a RigX report has cleared and refilled allData, of which the newest sample
\* of the window was a copy, and the window is as it was
C20_Witness ==
    /\ LastOrigin = "XPi" /\ hist.last.exc = ""
    /\ plot_list # <<>>
    /\ plot_list = hist.last.pre.plot_list
    /\ hist.last.pre.plot_list[Len(plot_list)] = hist.last.pre.allData
    /\ plot_list[Len(plot_list)] # allData

\* C21: a call of animate never fails on an index, and when it has made its
\* four reads, the x list and the y list it holds for each group are as long
\* as each other and are those of one classification: the position groups
\* as they were published at one report boundary.
C21_AnimateSeesOneClassification ==
    /\ animator.pc # "failed"
    /\ animator.pc = "done" =>
          /\ Len(animator.got[1]) = Len(animator.got[2])
          /\ Len(animator.got[3]) = Len(animator.got[4])
          /\ \E j \in 1 .. Len(gens) :
                /\ Len(gens[j].list_x) > 1 /\ Len(gens[j].list_y) > 1
                /\ animator.got[1] = gens[j].list_x[1]
                /\ animator.got[2] = gens[j].list_y[1]
          /\ \E j \in 1 .. Len(gens) :
                /\ Len(gens[j].list_x) > 1 /\ Len(gens[j].list_y) > 1
                /\ animator.got[3] = gens[j].list_x[2]
                /\ animator.got[4] = gens[j].list_y[2]

\* C22: when no reading of the iterated series is negative, decide_pos
\* returns without IndexError: for every reading d below 250 the lookup
\* indexes int(d / 28) - 1 and int(d / 28) - 2 are at least -len(b) and less
\* than len(b).
C22_NoIndexError ==
    cls.pc = "done" /\ (\A i \in 1 .. Len(cls.a) : cls.a[i] >= 0) =>
        /\ cls.out.exc = ""
        /\ \A i \in LowAt(cls.a) : \A j \in {1, 2} :
              LET idx == IntBucket(cls.a[i + 1]) - j
              IN  -Len(cls.b) <= idx /\ idx < Len(cls.b)

\* decide_pos has returned positions for a reading of the first bucket, whose
\* lookups count from the end, and for one of the last bucket
C22_Witness ==
    /\ Classified
    /\ \A i \in 1 .. Len(cls.a) : cls.a[i] >= 0
    /\ \E i, k \in 1 .. Len(cls.a) - 1 :
          /\ PositionsAt(cls.out, i) # {} /\ PositionsAt(cls.out, k) # {}
          /\ IntBucket(cls.a[i + 1]) = 0
          /\ IntBucket(cls.a[k + 1]) = Len(cls.b) - 1

====
